---- MODULE Spec2Model ----
(***************************************************************************)
(* The agentic job-application workflow: the Gemini gateway with its       *)
(* fallback (agents.py), the four agents built on it, the mail transport   *)
(* (utils.py) and the Streamlit session that drives one workflow run per   *)
(* click of "Start Agentic Workflow" (app.py).                             *)
(*                                                                         *)
(* Text is modelled at the level of words: a Python str is a sequence of   *)
(* words, an f-string is a concatenation, a substring test is a search in  *)
(* that sequence. JSON text is a sequence of JSON tokens, and json.loads   *)
(* is a parser over it.                                                    *)
(***************************************************************************)
EXTENDS Integers, Sequences, FiniteSets, TLC

(***************************************************************************)
(* Python values that json.loads can produce. Every value is a record of   *)
(* the same shape: t is the type, s the words of a str, kids the elements  *)
(* of a list or the values of a dict, keys the keys of a dict (in order).  *)
(***************************************************************************)
JStr(s) == [t |-> "str", s |-> s, kids |-> <<>>, keys |-> <<>>]

JNull == [t |-> "null", s |-> <<>>, kids |-> <<>>, keys |-> <<>>]

JList(items) == [t |-> "list", s |-> <<>>, kids |-> items, keys |-> <<>>]

JObj(ks, vs) == [t |-> "obj", s |-> <<>>, kids |-> vs, keys |-> ks]

\* d.get(key, default) of a dict d
DictGet(d, key, default) ==
    IF \E i \in 1..Len(d.keys) : d.keys[i] = key
    THEN d.kids[CHOOSE i \in 1..Len(d.keys) : d.keys[i] = key]
    ELSE default

\* d[key] = val of a dict d: the key keeps its place, a new key goes last
DictSet(d, key, val) ==
    IF \E i \in 1..Len(d.keys) : d.keys[i] = key
    THEN [d EXCEPT !.kids[CHOOSE i \in 1..Len(d.keys) : d.keys[i] = key] = val]
    ELSE [d EXCEPT !.keys = Append(@, key), !.kids = Append(@, val)]

\* str(v) as an f-string renders v: a str is itself, None is "None"
PyStr(v) ==
    CASE v.t = "str"  -> v.s
      [] v.t = "null" -> <<"None">>
      [] OTHER        -> <<"<repr>">>

\* sub in text, for a one-word sub
Contains(text, word) == \E i \in 1..Len(text) : text[i] = word

\* text.startswith(word), for a one-word prefix
StartsWith(text, word) == Len(text) >= 1 /\ text[1] = word

RECURSIVE JoinWords(_)
\* ', '.join(items) of a list of str values
JoinWords(items) ==
    IF Len(items) = 0 THEN <<>>
    ELSE IF Len(items) = 1 THEN items[1].s
    ELSE items[1].s \o <<",">> \o JoinWords(Tail(items))

(***************************************************************************)
(* JSON text: a sequence of tokens. k is the kind of token, s the words of *)
(* a string literal (or the word itself for text that is not JSON).        *)
(***************************************************************************)
Tok(k) == [k |-> k, s |-> <<>>]

TStr(s) == [k |-> "str", s |-> s]

TWord(w) == [k |-> "word", s |-> <<w>>]

RECURSIVE Dumps(_)
RECURSIVE DumpItems(_)
RECURSIVE DumpMembers(_, _)
\* json.dumps(v)
Dumps(v) ==
    CASE v.t = "str"  -> <<TStr(v.s)>>
      [] v.t = "null" -> <<Tok("null")>>
      [] v.t = "list" -> <<Tok("[")>> \o DumpItems(v.kids) \o <<Tok("]")>>
      [] v.t = "obj"  -> <<Tok("{")>> \o DumpMembers(v.keys, v.kids) \o <<Tok("}")>>

DumpItems(items) ==
    IF Len(items) = 0 THEN <<>>
    ELSE IF Len(items) = 1 THEN Dumps(items[1])
    ELSE Dumps(items[1]) \o <<Tok(",")>> \o DumpItems(Tail(items))

DumpMembers(ks, vs) ==
    IF Len(ks) = 0 THEN <<>>
    ELSE IF Len(ks) = 1 THEN <<TStr(ks[1]), Tok(":")>> \o Dumps(vs[1])
    ELSE <<TStr(ks[1]), Tok(":")>> \o Dumps(vs[1]) \o <<Tok(",")>>
            \o DumpMembers(Tail(ks), Tail(vs))

ParseFail == [ok |-> FALSE, val |-> JNull, pos |-> 0]

ParseOk(v, p) == [ok |-> TRUE, val |-> v, pos |-> p]

KindAt(toks, i) == IF i <= Len(toks) THEN toks[i].k ELSE "eof"

RECURSIVE ParseValue(_, _)
RECURSIVE ParseElems(_, _, _)
RECURSIVE ParseMembers(_, _, _)
\* the JSON value that starts at token i, and the position after it
ParseValue(toks, i) ==
    CASE KindAt(toks, i) = "str"  -> ParseOk(JStr(toks[i].s), i + 1)
      [] KindAt(toks, i) = "null" -> ParseOk(JNull, i + 1)
      [] KindAt(toks, i) = "["    ->
            IF KindAt(toks, i + 1) = "]" THEN ParseOk(JList(<<>>), i + 2)
            ELSE ParseElems(toks, i + 1, <<>>)
      [] KindAt(toks, i) = "{"    ->
            IF KindAt(toks, i + 1) = "}" THEN ParseOk(JObj(<<>>, <<>>), i + 2)
            ELSE ParseMembers(toks, i + 1, JObj(<<>>, <<>>))
      [] OTHER -> ParseFail

ParseElems(toks, i, acc) ==
    LET r == ParseValue(toks, i) IN
    IF ~r.ok THEN ParseFail
    ELSE IF KindAt(toks, r.pos) = "," THEN ParseElems(toks, r.pos + 1, Append(acc, r.val))
    ELSE IF KindAt(toks, r.pos) = "]" THEN ParseOk(JList(Append(acc, r.val)), r.pos + 1)
    ELSE ParseFail

ParseMembers(toks, i, acc) ==
    IF KindAt(toks, i) /= "str" \/ KindAt(toks, i + 1) /= ":" THEN ParseFail
    ELSE LET r == ParseValue(toks, i + 2) IN
         IF ~r.ok THEN ParseFail
         ELSE IF KindAt(toks, r.pos) = ","
              THEN ParseMembers(toks, r.pos + 1, DictSet(acc, toks[i].s, r.val))
         ELSE IF KindAt(toks, r.pos) = "}"
              THEN ParseOk(DictSet(acc, toks[i].s, r.val), r.pos + 1)
         ELSE ParseFail

\* json.loads(text): ok is FALSE where Python raises json.JSONDecodeError
Loads(text) ==
    LET r == ParseValue(text, 1) IN
    IF r.ok /\ r.pos = Len(text) + 1 THEN [ok |-> TRUE, val |-> r.val]
    ELSE [ok |-> FALSE, val |-> JNull]

(***************************************************************************)
(* agents.py: the gateway and the four agents. A provider call is an       *)
(* outcome: kind "ok" with the response text, "quota" (the provider raises *)
(* ResourceExhausted) or "error" (it raises anything else).                *)
(***************************************************************************)
ProviderOk(text) == [kind |-> "ok", text |-> text]

ProviderQuota == [kind |-> "quota", text |-> <<>>]

ProviderError == [kind |-> "error", text |-> <<>>]

\* configure_genai(): the key of st.secrets, else the key of the session
configure_genai(secrets_key, session_key) ==
    LET api_key == IF secrets_key /= <<>> THEN secrets_key ELSE session_key
    IN  api_key /= <<>>

\* what a gateway call did: the value it returned, whether an exception left
\* it, whether the provider was called, and the st.warning / st.error shown
GatewayResult(outcome, value, raised, called, notice) ==
    [outcome |-> outcome, value |-> value, raised |-> raised,
     called |-> called, notice |-> notice]

\* the gateway without its last except clause: any other provider error leaves it
call_gemini_with_fallback_NoExcept(has_key, provider, fallback_response) ==
    IF ~has_key
    THEN GatewayResult("nocred", fallback_response, FALSE, FALSE, "none")
    ELSE CASE provider.kind = "ok" ->
                GatewayResult("ok", provider.text, FALSE, TRUE, "none")
           [] provider.kind = "quota" ->
                GatewayResult("quota", fallback_response, FALSE, TRUE, "warning")
           [] OTHER ->
                GatewayResult("error", <<>>, TRUE, TRUE, "none")

\* call_gemini_with_fallback(prompt, fallback_response, json_format)
call_gemini_with_fallback(has_key, provider, fallback_response) ==
    IF ~has_key
    THEN GatewayResult("nocred", fallback_response, FALSE, FALSE, "none")
    ELSE CASE provider.kind = "ok" ->
                GatewayResult("ok", provider.text, FALSE, TRUE, "none")
           [] provider.kind = "quota" ->
                GatewayResult("quota", fallback_response, FALSE, TRUE, "warning")
           [] OTHER ->
                GatewayResult("error", fallback_response, FALSE, TRUE, "error")

\* the result of an agent: the value it returns (or raised), and its gateway call
AgentResult(raised, ret, gw, fallback) ==
    [raised |-> raised, ret |-> ret, gw |-> gw, fallback |-> fallback]

NoGateway == GatewayResult("nocall", <<>>, FALSE, FALSE, "none")

FallbackProfile ==
    JObj(<< <<"role">>, <<"skills">>, <<"experience_level">> >>,
         << JStr(<<"Software", "Engineer">>),
            JList(<< JStr(<<"Python">>), JStr(<<"Problem", "Solving">>),
                     JStr(<<"Communication">>) >>),
            JStr(<<"Mid">>) >>)

\* try: json.loads(response)  except json.JSONDecodeError: json.loads(fallback_json)
DecodeOrFallback(response, fallback_json) ==
    IF Loads(response).ok THEN Loads(response).val ELSE Loads(fallback_json).val

\* parse_resume_agent(resume_text)
parse_resume_agent(has_key, provider) ==
    LET fallback_json == Dumps(FallbackProfile)
        gw == call_gemini_with_fallback(has_key, provider, fallback_json)
    IN  IF gw.raised THEN AgentResult(TRUE, JNull, gw, fallback_json)
        ELSE AgentResult(FALSE, DecodeOrFallback(gw.value, fallback_json), gw, fallback_json)

JobRecord(company, title, email) ==
    JObj(<< <<"company_name">>, <<"job_title">>, <<"contact_email">> >>,
         << JStr(company), JStr(title), JStr(email) >>)

\* the fallback list with the third title left without the role
FallbackJobs_PlainThird(role) ==
    JList(<< JobRecord(<<"TechNova", "Solutions">>, <<"Senior">> \o PyStr(role),
                       <<"careers", "@", "technova", ".", "example", ".", "com">>),
             JobRecord(<<"Quantum", "Innovations">>, <<"Lead">> \o PyStr(role),
                       <<"hr", "@", "quantuminnovations", ".", "example", ".", "com">>),
             JobRecord(<<"CloudNine", "Systems">>, <<"Engineer">>,
                       <<"jobs", "@", "cloudninesystems", ".", "example", ".", "com">>) >>)

\* the fallback list of job_discovery_agent; role is rendered by the f-strings
FallbackJobs(role) ==
    JList(<< JobRecord(<<"TechNova", "Solutions">>, <<"Senior">> \o PyStr(role),
                       <<"careers", "@", "technova", ".", "example", ".", "com">>),
             JobRecord(<<"Quantum", "Innovations">>, <<"Lead">> \o PyStr(role),
                       <<"hr", "@", "quantuminnovations", ".", "example", ".", "com">>),
             JobRecord(<<"CloudNine", "Systems">>, PyStr(role),
                       <<"jobs", "@", "cloudninesystems", ".", "example", ".", "com">>) >>)

\* job_discovery_agent(role, location)
job_discovery_agent(role, location, has_key, provider) ==
    LET fallback_json == Dumps(FallbackJobs(role))
        gw == call_gemini_with_fallback(has_key, provider, fallback_json)
    IN  IF gw.raised THEN AgentResult(TRUE, JNull, gw, fallback_json)
        ELSE AgentResult(FALSE, DecodeOrFallback(gw.value, fallback_json), gw, fallback_json)

\* ', '.join(skills) raises TypeError unless skills is a list of str (or a str)
Joinable(skills) ==
    \/ skills.t = "str"
    \/ skills.t = "list" /\ \A i \in 1..Len(skills.kids) : skills.kids[i].t = "str"

\* skills[:3]
FirstThree(skills) ==
    IF skills.t = "list"
    THEN JList(SubSeq(skills.kids, 1, IF Len(skills.kids) < 3 THEN Len(skills.kids) ELSE 3))
    ELSE skills

JoinSkills(skills) == IF skills.t = "list" THEN JoinWords(skills.kids) ELSE skills.s

\* the fallback_text of cover_letter_agent
FallbackLetter(candidate_info, company_name, job_title) ==
    <<"Dear", "Hiring Manager at">> \o PyStr(company_name)
        \o <<"I am writing to express my strong interest in the">> \o PyStr(job_title)
        \o <<"role. With my background in">>
        \o PyStr(DictGet(candidate_info, <<"role">>, JNull))
        \o <<"and experience in">>
        \o JoinSkills(FirstThree(DictGet(candidate_info, <<"skills">>, JList(<<>>))))
        \o <<"Please find my resume attached.", "Best regards,", "A Dedicated Professional">>

\* cover_letter_agent(candidate_info, company_name, job_title): building the
\* prompt raises before the gateway is called when the skills cannot be joined
cover_letter_agent(candidate_info, company_name, job_title, has_key, provider) ==
    IF ~Joinable(DictGet(candidate_info, <<"skills">>, JList(<<>>)))
    THEN AgentResult(TRUE, <<>>, NoGateway, <<>>)
    ELSE LET fallback_text == FallbackLetter(candidate_info, company_name, job_title)
             gw == call_gemini_with_fallback(has_key, provider, fallback_text)
         IN  AgentResult(gw.raised, gw.value, gw, fallback_text)

FallbackQuestions == <<"1. Tell me about yourself.", "...", "10. Do you have any questions for us?">>

\* interview_prep_agent(role)
interview_prep_agent(role, has_key, provider) ==
    LET gw == call_gemini_with_fallback(has_key, provider, FallbackQuestions)
    IN  AgentResult(gw.raised, gw.value, gw, FallbackQuestions)

(***************************************************************************)
(* utils.py                                                                *)
(***************************************************************************)
\* extract_text_from_pdf(pdf_file): the text of the document, "" when the
\* reader raises or no page has text
extract_text_from_pdf(doc) ==
    IF doc \in {"scan", "none"} THEN <<>> ELSE <<"text of", doc>>

\* the SMTP calls send_email_with_attachment makes when the transport fails at
\* stage `fault` ("none": every call succeeds), and the bool it returns
TransportCalls(fault) ==
    CASE fault = "connect" -> <<"connect">>
      [] fault = "auth"    -> <<"connect", "starttls", "login">>
      [] fault = "send"    -> <<"connect", "starttls", "login", "send_message">>
      [] OTHER             -> <<"connect", "starttls", "login", "send_message", "quit">>

\* lines 46-57: True after quit(), False from either except clause
TransportResult(fault) == fault = "none"

(***************************************************************************)
(* The inputs of the model: what the provider answers, what the operator   *)
(* types and uploads, how the transport fails.                             *)
(***************************************************************************)
MaxClicks == 2

LiveProfile ==
    JObj(<< <<"role">>, <<"skills">>, <<"experience_level">> >>,
         << JStr(<<"Data", "Scientist">>),
            JList(<< JStr(<<"SQL">>), JStr(<<"Statistics">>), JStr(<<"Python">>),
                     JStr(<<"Spark">>) >>),
            JStr(<<"Senior">>) >>)

\* an object without the skills and experience_level keys
RoleOnlyProfile == JObj(<< <<"role">> >>, << JStr(<<"Data", "Scientist">>) >>)

\* an object with the three keys whose skills are null
NullSkillsProfile ==
    JObj(<< <<"role">>, <<"skills">>, <<"experience_level">> >>,
         << JStr(<<"Data", "Scientist">>), JNull, JStr(<<"Senior">>) >>)

\* text that is not JSON: prose, and an object that is cut off
ProseText == <<TWord("Sure,"), TWord("here"), TWord("you"), TWord("go")>>

TruncatedText == <<Tok("{"), TStr(<<"role">>), Tok(":"), TStr(<<"Data", "Scientist">>)>>

ResumeResponses ==
    {Dumps(LiveProfile), Dumps(RoleOnlyProfile), Dumps(NullSkillsProfile),
     Dumps(JList(<<>>)), ProseText, TruncatedText}

\* two opportunities, the first at an address that is no sandbox address
LiveJobs ==
    JList(<< JobRecord(<<"Acme", "Labs">>, <<"ML", "Engineer">>,
                       <<"talent", "@", "acmelabs", ".", "io">>),
             JobRecord(<<"Initech">>, <<"Data", "Analyst">>,
                       <<"initech", "@", "example", ".", "recruiting", ".", "com">>) >>)

\* an opportunity with only a company name, then one whose address is null
PartialJobs ==
    JList(<< JObj(<< <<"company_name">> >>, << JStr(<<"Globex">>) >>),
             JObj(<< <<"company_name">>, <<"job_title">>, <<"contact_email">> >>,
                  << JStr(<<"Hooli">>), JStr(<<"SRE">>), JNull >>) >>)

\* the list wrapped in an object
WrappedJobs == JObj(<< <<"jobs">> >>, << LiveJobs >>)

DiscoveryResponses ==
    {Dumps(LiveJobs), Dumps(PartialJobs), Dumps(WrappedJobs), Dumps(JList(<<>>)),
     Dumps(JNull), ProseText}

\* a letter the provider wrote, and one that opens and signs like the template
LiveLetter == <<"To the team,", "I would like to apply.", "Sincerely,", "The Candidate">>

LiveLetterSigned == <<"Dear", "Recruiter,", "I would like to apply.", "A Dedicated Professional">>

LetterResponses == {LiveLetter, LiveLetterSigned}

PrepResponses == {<<"1. Explain the bias-variance trade-off.", "...">>}

\* the provider's answers to one call; no provider is called without a key
NoProvider == [kind |-> "none", text |-> <<>>]

ProviderOutcomes(has_key, responses) ==
    IF has_key
    THEN {ProviderQuota, ProviderError} \cup {ProviderOk(text) : text \in responses}
    ELSE {NoProvider}

\* st.secrets holds no GEMINI_API_KEY: the key comes from the sidebar
SecretsKeys == {<<>>}

Senders == {<<>>, <<"user@example.com">>}

Passwords == {<<>>, <<"app-password">>}

Overrides == {<<>>, <<"Staff", "Engineer">>}

Locations == {<<"Remote">>}

NoFile == [name |-> <<>>, doc |-> "none"]

\* two documents under one file name, and a scan without text
Files ==
    {[name |-> <<"cv.pdf">>, doc |-> "resumeA"], [name |-> <<"cv.pdf">>, doc |-> "resumeB"],
     [name |-> <<"scan.pdf">>, doc |-> "scan"]}

TransportFaults == {"none", "connect", "auth", "send"}

(***************************************************************************)
(* app.py: the session. One click of "Start Agentic Workflow" runs main()  *)
(* from line 131 to its end; the run is cut into steps at the calls that   *)
(* leave the process (the gateway, the sleeps, the transport), and nothing *)
(* else runs between two steps of a run. pc = "idle" is the script at rest *)
(* between two runs. An exception that leaves main() ends the run where it *)
(* is raised; st.session_state keeps what was written before it.           *)
(***************************************************************************)
VARIABLES
    \* st.session_state (init_session_state)
    logs, jobs_identified, successful_dispatches, api_fallbacks,
    pdf_bytes, pdf_filename, workflow_started, workflow_completed, gemini_api_key,
    \* st.secrets and the file uploader
    secrets_key, uploaded_file,
    \* the locals of main() while a run is under way
    pc, sender_email, app_password, manual_role_input, preferred_loc, resume_text,
    candidate_info, mock_jobs, index, cover_letter, cur_job,
    \* what the run did, kept for the properties: the state of each opportunity,
    \* the letter, the sleeps and the transport calls made for the current one
    \* (in the order made) and the bytes
    \* attached to its message, the last agent call, how the last click ended,
    \* and counts of the clicks and of the gateway calls of the run
    status, effects, attachment, last_call, run_result, base_dispatches,
    clicks, gateway_calls

session == <<logs, jobs_identified, successful_dispatches, api_fallbacks,
             pdf_bytes, pdf_filename, workflow_started, workflow_completed, gemini_api_key>>

frame == <<sender_email, app_password, manual_role_input, preferred_loc, resume_text,
           candidate_info, mock_jobs, index, cover_letter, cur_job>>

observed == <<status, effects, attachment, last_call, run_result, base_dispatches,
              clicks, gateway_calls>>

vars == <<session, secrets_key, uploaded_file, pc, frame, observed>>

NoJob == [company |-> JNull, title |-> JNull, recipient |-> JNull]

NoCall ==
    [agent |-> "none", outcome |-> "nocall", response |-> <<>>, fallback |-> <<>>,
     value |-> <<>>, gw_raised |-> FALSE, called |-> FALSE, notice |-> "none",
     raised |-> FALSE, ret |-> <<>>, role |-> JNull]

\* the record of one agent call: the role the agent was called with (None for
\* the resume agent, which gets the text), the provider's answer and the
\* agent's result
CallRecord(agent, role, provider, r) ==
    [agent |-> agent, outcome |-> r.gw.outcome, response |-> provider.text,
     fallback |-> r.fallback, value |-> r.gw.value, gw_raised |-> r.gw.raised,
     called |-> r.gw.called, notice |-> r.gw.notice, raised |-> r.raised, ret |-> r.ret,
     role |-> role]

\* one more gateway call, unless the agent raised before calling the gateway
CallsAfter(r) == IF r.gw.outcome = "nocall" THEN gateway_calls ELSE gateway_calls + 1

Metrics == [logs |-> logs, api_fallbacks |-> api_fallbacks]

\* append_log counting an error entry as a fallback too
append_log_CountsErrors(m, message, error, fallback) ==
    LET color == IF fallback THEN "orange" ELSE IF error THEN "red" ELSE "#0288d1"
    IN  [logs |-> Append(m.logs, [color |-> color, message |-> message]),
         api_fallbacks |-> IF fallback \/ error THEN m.api_fallbacks + 1
                           ELSE m.api_fallbacks]

\* append_log(message, error, fallback), on the log and the fallback counter
append_log(m, message, error, fallback) ==
    LET color == IF fallback THEN "orange" ELSE IF error THEN "red" ELSE "#0288d1"
    IN  [logs |-> Append(m.logs, [color |-> color, message |-> message]),
         api_fallbacks |-> IF fallback THEN m.api_fallbacks + 1 ELSE m.api_fallbacks]

info(m, message) == append_log(m, message, FALSE, FALSE)

\* render_logs(): the entries shown
LogWindow == 50

render_logs(entries) ==
    IF Len(entries) <= LogWindow THEN entries
    ELSE SubSeq(entries, Len(entries) - LogWindow + 1, Len(entries))

HasKey == configure_genai(secrets_key, gemini_api_key)

\* for index, job in enumerate(mock_jobs): what the loop iterates over
Iterate(v) ==
    CASE v.t = "list" -> v.kids
      [] v.t = "obj"  -> [i \in 1..Len(v.keys) |-> JStr(v.keys[i])]
      [] v.t = "str"  -> [i \in 1..Len(v.s) |-> JStr(<<v.s[i]>>)]
      [] OTHER        -> <<>>

\* len(mock_jobs) raises TypeError for None
HasLen(v) == v.t /= "null"

\* pd.DataFrame(mock_jobs) raises ValueError for a str, for None and for a
\* dict of scalars
DataFrameRaises(v) ==
    \/ v.t \in {"str", "null"}
    \/ v.t = "obj" /\ Len(v.kids) > 0 /\ \A i \in 1..Len(v.kids) : v.kids[i].t /= "list"

\* "example" in recipient raises TypeError for None
HasMembership(recipient) == recipient.t /= "null"

InExample(recipient) ==
    CASE recipient.t = "str"  -> Contains(recipient.s, "example")
      [] recipient.t = "list" ->
            \E i \in 1..Len(recipient.kids) : recipient.kids[i] = JStr(<<"example">>)
      [] recipient.t = "obj"  ->
            \E i \in 1..Len(recipient.keys) : recipient.keys[i] = <<"example">>
      [] OTHER -> FALSE

\* line 192: the letter opens with "Dear" and holds "A Dedicated Professional"
LooksLikeFallback(letter) ==
    StartsWith(letter, "Dear") /\ Contains(letter, "A Dedicated Professional")

\* the transport connecting before the rate-limit sleep
send_email_with_attachment_SleepLate(attachment_bytes, fault) ==
    [attachment |-> attachment_bytes,
     calls |-> <<"connect", "sleep20">> \o Tail(TransportCalls(fault)),
     result |-> TransportResult(fault)]

\* send_email_with_attachment(...): the message's attachment, the sleep and the
\* SMTP calls in the order made, and the bool returned
send_email_with_attachment(attachment_bytes, fault) ==
    [attachment |-> attachment_bytes,
     calls |-> <<"sleep20">> \o TransportCalls(fault),
     result |-> TransportResult(fault)]

Init ==
    /\ logs = <<>>
    /\ jobs_identified = 0
    /\ successful_dispatches = 0
    /\ api_fallbacks = 0
    /\ pdf_bytes = "none"
    /\ pdf_filename = <<>>
    /\ workflow_started = FALSE
    /\ workflow_completed = FALSE
    /\ gemini_api_key = <<>>
    /\ secrets_key \in SecretsKeys
    /\ uploaded_file = NoFile
    /\ pc = "idle"
    /\ sender_email = <<>>
    /\ app_password = <<>>
    /\ manual_role_input = <<>>
    /\ preferred_loc = <<>>
    /\ resume_text = <<>>
    /\ candidate_info = JNull
    /\ mock_jobs = JNull
    /\ index = 0
    /\ cover_letter = <<>>
    /\ cur_job = NoJob
    /\ status = <<>>
    /\ effects = <<>>
    /\ attachment = "none"
    /\ last_call = NoCall
    /\ run_result = "none"
    /\ base_dispatches = 0
    /\ clicks = 0
    /\ gateway_calls = 0

\* main() returns or an exception leaves it: its locals are gone
ClearFrame ==
    /\ sender_email' = <<>>
    /\ app_password' = <<>>
    /\ manual_role_input' = <<>>
    /\ preferred_loc' = <<>>
    /\ resume_text' = <<>>
    /\ candidate_info' = JNull
    /\ mock_jobs' = JNull
    /\ index' = 0
    /\ cover_letter' = <<>>
    /\ cur_job' = NoJob

\* the run ends as `result` with the log and the fallback counter as in m
EndRun(result, m) ==
    /\ pc' = "idle"
    /\ run_result' = result
    /\ logs' = m.logs
    /\ api_fallbacks' = m.api_fallbacks
    /\ ClearFrame

\* lines 107-109: the operator types a key in the sidebar
EnterApiKey ==
    /\ pc = "idle"
    /\ secrets_key = <<>>
    /\ gemini_api_key = <<>>
    /\ gemini_api_key' = <<"AIza-session">>
    /\ UNCHANGED <<logs, jobs_identified, successful_dispatches, api_fallbacks, pdf_bytes,
                   pdf_filename, workflow_started, workflow_completed, secrets_key,
                   uploaded_file, pc, frame, observed>>

\* lines 122-129: a file is put in the uploader and the script reruns
UploadFile ==
    /\ pc = "idle"
    /\ \E f \in Files :
          /\ f /= uploaded_file
          /\ uploaded_file' = f
          /\ IF pdf_filename /= f.name
             THEN /\ pdf_bytes' = f.doc
                  /\ pdf_filename' = f.name
                  /\ workflow_started' = FALSE
             ELSE UNCHANGED <<pdf_bytes, pdf_filename, workflow_started>>
    /\ UNCHANGED <<logs, jobs_identified, successful_dispatches, api_fallbacks,
                   workflow_completed, gemini_api_key, secrets_key, pc, frame,
                   status, effects, attachment, last_call, run_result, base_dispatches,
                   clicks, gateway_calls>>

\* the rejection with the log cleared before the credentials are tested
StartRejected_ClearsLog ==
    /\ pc = "idle"
    /\ uploaded_file /= NoFile
    /\ clicks < MaxClicks
    /\ \E sender \in Senders, password \in Passwords :
          /\ sender = <<>> \/ password = <<>>
          /\ LET m == append_log([logs |-> <<>>, api_fallbacks |-> api_fallbacks],
                                 <<"Workflow aborted: Missing SMTP credentials">>,
                                 TRUE, FALSE)
             IN  /\ logs' = m.logs
                 /\ api_fallbacks' = m.api_fallbacks
    /\ clicks' = clicks + 1
    /\ run_result' = "rejected"
    /\ UNCHANGED <<jobs_identified, successful_dispatches, pdf_bytes, pdf_filename,
                   workflow_started, workflow_completed, gemini_api_key, secrets_key,
                   uploaded_file, pc, frame, status, effects, attachment, last_call,
                   base_dispatches, gateway_calls>>

\* lines 131-135: the button is clicked without a sender address or password
StartRejected ==
    /\ pc = "idle"
    /\ uploaded_file /= NoFile
    /\ clicks < MaxClicks
    /\ \E sender \in Senders, password \in Passwords :
          /\ sender = <<>> \/ password = <<>>
          /\ LET m == append_log(Metrics, <<"Workflow aborted: Missing SMTP credentials">>,
                                 TRUE, FALSE)
             IN  /\ logs' = m.logs
                 /\ api_fallbacks' = m.api_fallbacks
    /\ clicks' = clicks + 1
    /\ run_result' = "rejected"
    /\ UNCHANGED <<jobs_identified, successful_dispatches, pdf_bytes, pdf_filename,
                   workflow_started, workflow_completed, gemini_api_key, secrets_key,
                   uploaded_file, pc, frame, status, effects, attachment, last_call,
                   base_dispatches, gateway_calls>>

\* lines 131-145: the click is accepted, the log is cleared, the text is extracted
StartWorkflow ==
    /\ pc = "idle"
    /\ uploaded_file /= NoFile
    /\ clicks < MaxClicks
    /\ \E sender \in Senders, password \in Passwords,
          role \in Overrides, location \in Locations :
          /\ sender /= <<>> /\ password /= <<>>
          /\ sender_email' = sender
          /\ app_password' = password
          /\ manual_role_input' = role
          /\ preferred_loc' = location
    /\ workflow_started' = TRUE
    /\ workflow_completed' = FALSE
    /\ LET m0 == [logs |-> <<>>, api_fallbacks |-> api_fallbacks]
           m1 == info(m0, <<"Initializing Agentic AI Workflow...">>)
           m2 == info(m1, <<"Reading PDF Resume...">>)
       IN  /\ logs' = m2.logs
           /\ api_fallbacks' = m2.api_fallbacks
    /\ resume_text' = extract_text_from_pdf(uploaded_file.doc)
    /\ pc' = "extracted"
    /\ clicks' = clicks + 1
    /\ run_result' = "running"
    /\ status' = <<>>
    /\ effects' = <<>>
    /\ attachment' = "none"
    /\ last_call' = NoCall
    /\ base_dispatches' = successful_dispatches
    /\ gateway_calls' = 0
    /\ UNCHANGED <<jobs_identified, successful_dispatches, pdf_bytes, pdf_filename,
                   gemini_api_key, secrets_key, uploaded_file, candidate_info, mock_jobs,
                   index, cover_letter, cur_job>>

\* line 147 testing for None: the empty string passes
TextExtracted_IsNotNone == TRUE

\* line 147: `if not resume_text` is the negation of this
TextExtracted == resume_text /= <<>>

\* lines 147-150: no text was extracted
AbortExtraction ==
    /\ pc = "extracted"
    /\ ~TextExtracted
    /\ EndRun("aborted", append_log(Metrics, <<"Failed to extract text from PDF.">>, TRUE, FALSE))
    /\ UNCHANGED <<jobs_identified, successful_dispatches, pdf_bytes, pdf_filename,
                   workflow_started, workflow_completed, gemini_api_key, secrets_key,
                   uploaded_file, status, effects, attachment, last_call, base_dispatches,
                   clicks, gateway_calls>>

\* the override building a new profile that holds the role alone
ApplyOverride_OnlyRole(profile, override) ==
    IF override /= <<>> THEN JObj(<< <<"role">> >>, << JStr(override) >>) ELSE profile

\* lines 156-158: candidate_info["role"] = manual_role_input when one was typed
ApplyOverride(profile, override) ==
    IF override /= <<>> THEN DictSet(profile, <<"role">>, JStr(override)) ELSE profile

\* lines 152-164: the resume agent, the role override, parsed_resume
ParseResume ==
    /\ pc = "extracted"
    /\ TextExtracted
    /\ \E provider \in ProviderOutcomes(HasKey, ResumeResponses) :
       \E r \in {parse_resume_agent(HasKey, provider)} :
          LET m1 == info(Metrics, <<"Analyzing resume content via LLM Agent...">>)
              m2 == IF manual_role_input /= <<>>
                    THEN info(m1, <<"Applying manual role override:">> \o manual_role_input)
                    ELSE m1
              overridden == ApplyOverride(r.ret, manual_role_input)
              m3 == info(m2, <<"Analysis Complete -> Role:">>
                               \o PyStr(DictGet(overridden, <<"role">>, JNull))
                               \o <<"| Level:">>
                               \o PyStr(DictGet(overridden, <<"experience_level">>, JNull)))
          IN  /\ last_call' = CallRecord("parse", JNull, provider, r)
              /\ gateway_calls' = CallsAfter(r)
              /\ IF r.raised
                 THEN EndRun("crashed", m1)
                 ELSE IF r.ret.t /= "obj"
                 \* candidate_info["role"] = ... or candidate_info.get raises
                 THEN EndRun("crashed", m2)
                 ELSE /\ candidate_info' = overridden
                      /\ logs' = m3.logs
                      /\ api_fallbacks' = m3.api_fallbacks
                      /\ pc' = "parsed"
                      /\ UNCHANGED <<sender_email, app_password, manual_role_input,
                                     preferred_loc, resume_text, mock_jobs, index,
                                     cover_letter, cur_job, run_result>>
    /\ UNCHANGED <<jobs_identified, successful_dispatches, pdf_bytes, pdf_filename,
                   workflow_started, workflow_completed, gemini_api_key, secrets_key,
                   uploaded_file, status, effects, attachment, base_dispatches,
                   clicks>>

\* lines 166-175: the discovery agent, jobs_identified, the table
DiscoverJobs ==
    /\ pc = "parsed"
    /\ \E provider \in ProviderOutcomes(HasKey, DiscoveryResponses) :
       \E r \in {job_discovery_agent(DictGet(candidate_info, <<"role">>, JNull),
                                      preferred_loc, HasKey, provider)} :
          LET role == DictGet(candidate_info, <<"role">>, JNull)
              m1 == info(Metrics, <<"Initiating Discovery Agent for">> \o PyStr(role)
                                    \o <<"positions in">> \o preferred_loc)
              n  == Len(Iterate(r.ret))
              m2 == info(m1, <<"Discovered", ToString(n), "targeted opportunities.">>)
          IN  /\ last_call' = CallRecord("discover", role, provider, r)
              /\ gateway_calls' = CallsAfter(r)
              /\ IF r.raised \/ ~HasLen(r.ret)
                 THEN /\ EndRun("crashed", m1)
                      /\ UNCHANGED <<jobs_identified, status>>
                 ELSE IF DataFrameRaises(r.ret)
                 THEN /\ EndRun("crashed", m2)
                      /\ jobs_identified' = n
                      /\ UNCHANGED status
                 ELSE /\ mock_jobs' = r.ret
                      /\ jobs_identified' = n
                      /\ logs' = m2.logs
                      /\ api_fallbacks' = m2.api_fallbacks
                      /\ status' = [i \in 1..n |-> "Pending"]
                      /\ index' = 0
                      /\ pc' = "loop"
                      /\ UNCHANGED <<sender_email, app_password, manual_role_input,
                                     preferred_loc, resume_text, candidate_info,
                                     cover_letter, cur_job, run_result>>
    /\ UNCHANGED <<successful_dispatches, pdf_bytes, pdf_filename, workflow_started,
                   workflow_completed, gemini_api_key, secrets_key, uploaded_file,
                   effects, attachment, base_dispatches, clicks>>

\* lines 181-202: the next opportunity, its cover letter, the fallback notice
GenerateLetter ==
    /\ pc = "loop"
    /\ index < Len(Iterate(mock_jobs))
    /\ LET job == Iterate(mock_jobs)[index + 1] IN
       IF job.t /= "obj"
       \* job.get raises AttributeError
       THEN /\ EndRun("crashed", Metrics)
            /\ UNCHANGED <<status, effects, attachment, last_call, gateway_calls>>
       ELSE
       \E provider \in ProviderOutcomes(HasKey, LetterResponses) :
          LET company   == DictGet(job, <<"company_name">>,
                                   JStr(<<"Company", ToString(index + 1)>>))
              title     == DictGet(job, <<"job_title">>, JStr(<<"Software", "Engineer">>))
              recipient == DictGet(job, <<"contact_email">>,
                                   JStr(<<"hr", "@", "example", ".", "com">>))
              m1 == info(Metrics, <<"--- Processing", ToString(index + 1), "/",
                                    ToString(Len(Iterate(mock_jobs))), ":">>
                                    \o PyStr(company) \o <<"---">>)
              m2 == info(m1, <<"Generating hyper-personalized cover letter targeting">>
                               \o PyStr(title) \o <<"at">> \o PyStr(company))
              r  == cover_letter_agent(candidate_info, company, title, HasKey, provider)
              m3 == IF LooksLikeFallback(r.ret)
                    THEN append_log(m2, <<"Notice: Used fallback template for cover letter.">>,
                                    FALSE, TRUE)
                    ELSE m2
              m4 == info(m3, <<"Preparing dispatch to">> \o PyStr(recipient)
                               \o <<"(Includes 20s rate limit buffer)...">>)
          IN  /\ last_call' = CallRecord("letter", DictGet(candidate_info, <<"role">>, JNull),
                                          provider, r)
              /\ gateway_calls' = CallsAfter(r)
              /\ attachment' = "none"
              /\ IF r.raised
                 THEN /\ EndRun("crashed", m2)
                      /\ effects' = <<>>
                      /\ UNCHANGED status
                 ELSE /\ cur_job' = [company |-> company, title |-> title,
                                     recipient |-> recipient]
                      /\ cover_letter' = r.ret
                      /\ effects' = <<"letter">>
                      /\ logs' = m4.logs
                      /\ api_fallbacks' = m4.api_fallbacks
                      /\ status' = [status EXCEPT ![index + 1] = "LetterGenerated"]
                      /\ pc' = "lettered"
                      /\ UNCHANGED <<sender_email, app_password, manual_role_input,
                                     preferred_loc, resume_text, candidate_info, mock_jobs,
                                     index, run_result>>
    /\ UNCHANGED <<jobs_identified, successful_dispatches, pdf_bytes, pdf_filename,
                   workflow_started, workflow_completed, gemini_api_key, secrets_key,
                   uploaded_file, base_dispatches, clicks>>

\* line 205: "example" in recipient raises TypeError
DispatchTypeError ==
    /\ pc = "lettered"
    /\ ~HasMembership(cur_job.recipient)
    /\ EndRun("crashed", Metrics)
    /\ UNCHANGED <<jobs_identified, successful_dispatches, pdf_bytes, pdf_filename,
                   workflow_started, workflow_completed, gemini_api_key, secrets_key,
                   uploaded_file, status, effects, attachment, last_call, base_dispatches,
                   clicks, gateway_calls>>

\* lines 220-224 with the counter incremented outside the if
RecordDispatch_CountsFailures(success, m) ==
    /\ successful_dispatches' = successful_dispatches + 1
    /\ LET m1 == IF success
                 THEN info(m, <<"Successfully dispatched application to">>
                                \o PyStr(cur_job.company))
                 ELSE append_log(m, <<"Failed to dispatch to">> \o PyStr(cur_job.company),
                                 TRUE, FALSE)
       IN  /\ logs' = m1.logs
           /\ api_fallbacks' = m1.api_fallbacks
    /\ status' = [status EXCEPT ![index + 1] = IF success THEN "Sent" ELSE "Failed"]
    /\ index' = index + 1
    /\ pc' = "loop"

\* lines 220-224 after a dispatch that returned success: the counter, the log,
\* and the loop moves on
RecordDispatch(success, m) ==
    /\ successful_dispatches' = IF success THEN successful_dispatches + 1
                                ELSE successful_dispatches
    /\ LET m1 == IF success
                 THEN info(m, <<"Successfully dispatched application to">>
                                \o PyStr(cur_job.company))
                 ELSE append_log(m, <<"Failed to dispatch to">> \o PyStr(cur_job.company),
                                 TRUE, FALSE)
       IN  /\ logs' = m1.logs
           /\ api_fallbacks' = m1.api_fallbacks
    /\ status' = [status EXCEPT ![index + 1] = IF success THEN "Sent" ELSE "Failed"]
    /\ index' = index + 1
    /\ pc' = "loop"

\* the sandbox branch sleeping the full rate-limit wait
SimulatedSend_FullWait ==
    /\ pc = "lettered"
    /\ HasMembership(cur_job.recipient)
    /\ InExample(cur_job.recipient)
    /\ effects' = Append(effects, "sleep20")
    /\ RecordDispatch(TRUE, info(Metrics, <<"Mocking sent email to">>
                                           \o PyStr(cur_job.recipient)
                                           \o <<"(Simulated 3s delay)...">>))
    /\ UNCHANGED <<jobs_identified, pdf_bytes, pdf_filename, workflow_started,
                   workflow_completed, gemini_api_key, secrets_key, uploaded_file,
                   sender_email, app_password, manual_role_input, preferred_loc,
                   resume_text, candidate_info, mock_jobs, cover_letter, cur_job,
                   attachment, last_call, run_result, base_dispatches, clicks,
                   gateway_calls>>

\* lines 205-208, 220-224: a sandbox address, the send is simulated
SimulatedSend ==
    /\ pc = "lettered"
    /\ HasMembership(cur_job.recipient)
    /\ InExample(cur_job.recipient)
    /\ effects' = Append(effects, "sleep3")
    /\ RecordDispatch(TRUE, info(Metrics, <<"Mocking sent email to">>
                                           \o PyStr(cur_job.recipient)
                                           \o <<"(Simulated 3s delay)...">>))
    /\ UNCHANGED <<jobs_identified, pdf_bytes, pdf_filename, workflow_started,
                   workflow_completed, gemini_api_key, secrets_key, uploaded_file,
                   sender_email, app_password, manual_role_input, preferred_loc,
                   resume_text, candidate_info, mock_jobs, cover_letter, cur_job,
                   attachment, last_call, run_result, base_dispatches, clicks, gateway_calls>>

\* lines 209-224: any other address, the letter goes to the transport
RealSend ==
    /\ pc = "lettered"
    /\ HasMembership(cur_job.recipient)
    /\ ~InExample(cur_job.recipient)
    /\ \E fault \in TransportFaults :
          LET sent == send_email_with_attachment(pdf_bytes, fault)
          IN  /\ effects' = effects \o sent.calls
              /\ attachment' = sent.attachment
              /\ RecordDispatch(sent.result, Metrics)
    /\ UNCHANGED <<jobs_identified, pdf_bytes, pdf_filename, workflow_started,
                   workflow_completed, gemini_api_key, secrets_key, uploaded_file,
                   sender_email, app_password, manual_role_input, preferred_loc,
                   resume_text, candidate_info, mock_jobs, cover_letter, cur_job,
                   last_call, run_result, base_dispatches, clicks, gateway_calls>>

\* lines 226-235: the interview guide, and the run is complete
InterviewPrep ==
    /\ pc = "loop"
    /\ index = Len(Iterate(mock_jobs))
    /\ \E provider \in ProviderOutcomes(HasKey, PrepResponses) :
          LET m1 == info(Metrics, <<"Initializing Post-Process Action: Interview Prep Agent...">>)
              r  == interview_prep_agent(DictGet(candidate_info, <<"role">>, JNull),
                                         HasKey, provider)
              m2 == info(m1, <<"Interview Guide ready.">>)
              m3 == info(m2, <<"ALL TASKS COMPLETED. Agent going to sleep.">>)
          IN  /\ last_call' = CallRecord("prep", DictGet(candidate_info, <<"role">>, JNull),
                                          provider, r)
              /\ gateway_calls' = CallsAfter(r)
              /\ IF r.raised
                 THEN /\ EndRun("crashed", m1)
                      /\ UNCHANGED workflow_completed
                 ELSE /\ EndRun("completed", m3)
                      /\ workflow_completed' = TRUE
    /\ UNCHANGED <<jobs_identified, successful_dispatches, pdf_bytes, pdf_filename,
                   workflow_started, gemini_api_key, secrets_key, uploaded_file,
                   status, effects, attachment, base_dispatches, clicks>>

(***************************************************************************)
(* The log sink on its own: append_log called again and again on a fresh   *)
(* session, with any severity. The calls are numbered so that the entries  *)
(* differ. MaxLogCalls bounds the calls, MaxAlerts the calls that are not  *)
(* plain info.                                                             *)
(***************************************************************************)
MaxLogCalls == 52

MaxAlerts == 1

Alerts == Cardinality({i \in 1..Len(logs) : logs[i].color /= "#0288d1"})

\* lines 42-51: one call append_log(message, error, fallback)
AppendLogCall ==
    /\ pc = "idle"
    /\ Len(logs) < MaxLogCalls
    /\ \E error \in BOOLEAN, fallback \in BOOLEAN :
          /\ (error \/ fallback) => Alerts < MaxAlerts
          /\ LET m == append_log(Metrics, <<"message", ToString(Len(logs) + 1)>>,
                                 error, fallback)
             IN  /\ logs' = m.logs
                 /\ api_fallbacks' = m.api_fallbacks
    /\ UNCHANGED <<jobs_identified, successful_dispatches, pdf_bytes, pdf_filename,
                   workflow_started, workflow_completed, gemini_api_key, secrets_key,
                   uploaded_file, pc, frame, observed>>

(***************************************************************************)
(* The properties.                                                         *)
(***************************************************************************)
TransportCallNames == {"connect", "starttls", "login", "send_message", "quit"}

\* a sandbox address: a str that holds "example"
IsSandbox(recipient) == recipient.t = "str" /\ Contains(recipient.s, "example")

\* the opportunity the loop is at, or has just finished, has an address
AtOpportunity == pc \in {"lettered", "loop"} /\ cur_job /= NoJob

\* a JSON object with exactly the keys role, skills, experience_level
IsCandidateProfile(v) ==
    /\ v.t = "obj"
    /\ Len(v.keys) = 3
    /\ {v.keys[i] : i \in 1..Len(v.keys)} = {<<"role">>, <<"skills">>, <<"experience_level">>}

\* a JSON object with the keys company_name, job_title, contact_email
IsJobOpportunity(v) ==
    /\ v.t = "obj"
    /\ {<<"company_name">>, <<"job_title">>, <<"contact_email">>}
          \subseteq {v.keys[i] : i \in 1..Len(v.keys)}

\* C1: a gateway call that ends without credential, in quota exhaustion or in
\* any other provider error returns exactly its fallback argument and raises
\* nothing; without credential the provider is not called.
C1_GatewayReturnsFallback ==
    (last_call.agent /= "none" /\ last_call.outcome \in {"nocred", "quota", "error"})
        => /\ ~last_call.gw_raised
           /\ last_call.value = last_call.fallback
           /\ (last_call.outcome = "nocred" => ~last_call.called)

C1_Witness ==
    /\ last_call.agent = "letter"
    /\ last_call.outcome = "error"
    /\ last_call.called
    /\ last_call.value = last_call.fallback

\* C2: a step that makes a gateway call (for any of the four agents) adds one
\* to api_fallbacks if the call ended in quota exhaustion, and leaves
\* api_fallbacks as it was otherwise.
C2_FallbackCountedIffQuota ==
    [][gateway_calls' = gateway_calls + 1
          => IF last_call'.outcome = "quota"
             THEN api_fallbacks' = api_fallbacks + 1
             ELSE api_fallbacks' = api_fallbacks]_vars

\* C3: when an accepted click has started a run, the three counters are 0 and
\* the log holds nothing of an earlier run.
C3_CountersResetAtStart ==
    pc = "extracted"
        => /\ jobs_identified = 0
           /\ successful_dispatches = 0
           /\ api_fallbacks = 0
           /\ Len(logs) = 2

\* C4: in every state of the session, successful_dispatches <= jobs_identified.
C4_DispatchesAtMostJobs == successful_dispatches <= jobs_identified

\* C5: when the provider's answer to the resume agent is not JSON, or is JSON
\* that is no object with exactly the keys role, skills and experience_level,
\* the agent returns the fallback profile (the decoded fallback string) and
\* raises nothing.
C5_BadResponseGivesFallbackProfile ==
    (/\ last_call.agent = "parse"
     /\ last_call.outcome = "ok"
     /\ \/ ~Loads(last_call.response).ok
        \/ ~IsCandidateProfile(Loads(last_call.response).val))
        => /\ ~last_call.raised
           /\ last_call.ret = Loads(Dumps(FallbackProfile)).val

\* C6: whatever the gateway returned, the discovery agent returns a list of
\* exactly 3 opportunities, each with company_name, job_title, contact_email.
C6_ExactlyThreeOpportunities ==
    last_call.agent = "discover"
        => /\ ~last_call.raised
           /\ last_call.ret.t = "list"
           /\ Len(last_call.ret.kids) = 3
           /\ \A i \in 1..Len(last_call.ret.kids) : IsJobOpportunity(last_call.ret.kids[i])

\* C7: the dispatch loop takes the opportunities in discovery order, makes at
\* most one send attempt for each, and when the run has ended every
\* opportunity of the run is Sent or Failed.
C7_LoopProcessesEveryOpportunity ==
    /\ \A i \in DOMAIN status :
          status[i] /= "Pending" => \A j \in 1..(i - 1) : status[j] \in {"Sent", "Failed"}
    /\ Cardinality({k \in 1..Len(effects) : effects[k] = "send_message"}) <= 1
    /\ run_result \in {"completed", "crashed"}
          => \A i \in DOMAIN status : status[i] \in {"Sent", "Failed"}

\* C8: in a run, successful_dispatches has grown by exactly the number of
\* opportunities that ended in Sent; one that ended in Failed adds nothing.
C8_DispatchesCountSent ==
    successful_dispatches
        = base_dispatches + Cardinality({i \in DOMAIN status : status[i] = "Sent"})

C8_Witness ==
    /\ \E i \in DOMAIN status : status[i] = "Failed"
    /\ \E i \in DOMAIN status : status[i] = "Sent"
    /\ base_dispatches > 0

\* C9: for an opportunity at a sandbox address the only sleep is the 3-unit
\* one, the 20-unit wait and the transport are never used, nothing is attached,
\* and once dispatched the opportunity is Sent.
C9_SandboxUsesShortDelay ==
    (AtOpportunity /\ IsSandbox(cur_job.recipient))
        => /\ \A k \in 1..Len(effects) : effects[k] \in {"letter", "sleep3"}
           /\ attachment = "none"
           /\ pc = "lettered" => effects = <<"letter">>
           /\ pc = "loop" => effects = <<"letter", "sleep3">> /\ status[index] = "Sent"

C9_Witness ==
    /\ AtOpportunity
    /\ IsSandbox(cur_job.recipient)
    /\ pc = "loop"
    /\ effects = <<"letter", "sleep3">>
    /\ status[index] = "Sent"

\* C10: every transport call of an opportunity comes after the 20-unit wait,
\* which comes after the cover letter; the connection is opened right after
\* the wait; and an opportunity at an address that is no sandbox address has
\* had the letter and then the wait once it is dispatched.
C10_WaitBeforeTransport ==
    /\ \A k \in 1..Len(effects) :
          effects[k] \in TransportCallNames
              => /\ k >= 3
                 /\ effects[1] = "letter"
                 /\ effects[2] = "sleep20"
                 /\ effects[k] = "connect" => k = 3
    /\ (AtOpportunity /\ pc = "loop" /\ ~IsSandbox(cur_job.recipient))
          => /\ Len(effects) >= 3
             /\ effects[1] = "letter"
             /\ effects[2] = "sleep20"
             /\ effects[3] = "connect"

C10_Witness ==
    /\ AtOpportunity
    /\ ~IsSandbox(cur_job.recipient)
    /\ Contains(effects, "send_message")
    /\ status[index] = "Sent"

\* C11: the log never holds more than 50 entries: it is always its own last-50
\* window, the older entries being dropped as new ones are appended.
C11_LogKeepsLastFifty ==
    /\ Len(logs) <= LogWindow
    /\ logs = render_logs(logs)

\* C12: a run whose extraction returned text ends completed, with
\* workflow_completed set, whatever the gateway and the transport did; a run
\* ends otherwise only by the abort on an empty extraction.
C12_RunWithTextCompletes ==
    (pc = "idle" /\ run_result \notin {"none", "rejected"})
        => \/ run_result = "completed" /\ workflow_completed
           \/ run_result = "aborted"

\* C13: a run whose extraction returned the empty string ends aborted at once,
\* and in that run there is no agent or gateway call, no cover letter, no sleep,
\* no transport call, no attachment and no opportunity, and workflow_completed
\* stays false.
C13_EmptyExtractionAborts ==
    /\ []((run_result = "aborted" \/ (pc = "extracted" /\ resume_text = <<>>))
            => /\ gateway_calls = 0
               /\ last_call = NoCall
               /\ effects = <<>>
               /\ attachment = "none"
               /\ status = <<>>
               /\ ~workflow_completed)
    /\ [][(pc = "extracted" /\ resume_text = <<>>)
             => (pc' = "idle" /\ run_result' = "aborted")]_vars

C13_Witness ==
    /\ run_result = "aborted"
    /\ pc = "idle"
    /\ successful_dispatches > 0
    /\ gateway_calls = 0

\* C14: when the gateway returned the fallback for the discovery call (no
\* key, quota, any other provider error), the agent returns exactly three
\* opportunities titled "Senior r", "Lead r" and "r" for the role r it was
\* called with, at the three fixed example addresses, in that order.
C14_FallbackOpportunities ==
    (last_call.agent = "discover" /\ last_call.outcome \in {"nocred", "quota", "error"})
        => /\ ~last_call.raised
           /\ last_call.ret.t = "list"
           /\ Len(last_call.ret.kids) = 3
           /\ \A i \in 1..Len(last_call.ret.kids) : IsJobOpportunity(last_call.ret.kids[i])
           /\ [i \in 1..3 |-> DictGet(last_call.ret.kids[i], <<"job_title">>, JNull)]
                 = << JStr(<<"Senior">> \o last_call.role.s),
                      JStr(<<"Lead">> \o last_call.role.s),
                      JStr(last_call.role.s) >>
           /\ [i \in 1..3 |-> DictGet(last_call.ret.kids[i], <<"contact_email">>, JNull)]
                 = << JStr(<<"careers", "@", "technova", ".", "example", ".", "com">>),
                      JStr(<<"hr", "@", "quantuminnovations", ".", "example", ".", "com">>),
                      JStr(<<"jobs", "@", "cloudninesystems", ".", "example", ".", "com">>) >>

C14_Witness ==
    /\ last_call.agent = "discover"
    /\ last_call.outcome = "quota"
    /\ last_call.role = JStr(<<"Staff", "Engineer">>)
    /\ pc = "loop"
    /\ jobs_identified = 3

\* C15: once the letter of an opportunity is generated, the fallback notice
\* is in the log for it if and only if the gateway returned the fallback value
\* for that letter; a letter the provider wrote carries no notice.
C15_NoticeIffGatewayFallback ==
    (pc = "lettered" /\ last_call.agent = "letter")
        => (logs[Len(logs) - 1].color = "orange"
               <=> last_call.outcome \in {"nocred", "quota", "error"})

\* C16: the bytes attached to a message sent through the transport are the
\* document whose text was extracted in this run, which is the file in the
\* uploader.
C16_AttachmentIsExtractedResume ==
    (pc = "loop" /\ attachment /= "none")
        => /\ attachment = uploaded_file.doc
           /\ resume_text = extract_text_from_pdf(attachment)

\* C17: with a role override typed, the profile of the run has the override
\* as its role and every other key as the resume agent returned it; with no
\* override it is what the agent returned. The profile does not change for
\* the rest of the run, and the discovery, cover-letter and interview-prep
\* agents are called with its role.
C17_OverrideSetsRoleOnly ==
    /\ [](pc = "parsed"
            => /\ \A k \in {last_call.ret.keys[i] : i \in 1..Len(last_call.ret.keys)}
                                \ {<<"role">>} :
                     DictGet(candidate_info, k, JNull) = DictGet(last_call.ret, k, JNull)
               /\ {candidate_info.keys[i] : i \in 1..Len(candidate_info.keys)} \ {<<"role">>}
                     = {last_call.ret.keys[i] : i \in 1..Len(last_call.ret.keys)} \ {<<"role">>}
               /\ IF manual_role_input /= <<>>
                  THEN DictGet(candidate_info, <<"role">>, JNull) = JStr(manual_role_input)
                  ELSE candidate_info = last_call.ret)
    /\ [][(pc \in {"parsed", "loop", "lettered"} /\ pc' /= "idle")
             => candidate_info' = candidate_info]_vars
    /\ [][(/\ pc \in {"parsed", "loop"}
            /\ (gateway_calls' /= gateway_calls \/ last_call'.agent /= last_call.agent))
             => /\ last_call'.agent \in {"discover", "letter", "prep"}
                /\ last_call'.role = DictGet(candidate_info, <<"role">>, JNull)
                /\ manual_role_input /= <<>> => last_call'.role = JStr(manual_role_input)]_vars

C17_Witness ==
    /\ pc = "lettered"
    /\ manual_role_input = <<"Staff", "Engineer">>
    /\ last_call.agent = "letter"
    /\ last_call.role = JStr(<<"Staff", "Engineer">>)
    /\ DictGet(candidate_info, <<"skills">>, JNull) = DictGet(LiveProfile, <<"skills">>, JNull)
    /\ DictGet(candidate_info, <<"experience_level">>, JNull) = JStr(<<"Senior">>)

\* C18: one append_log call appends exactly one entry to the log (the entries
\* before it stay as they were), adds one to api_fallbacks if and only if the
\* call's severity is fallback (the entry is the orange one), and leaves
\* jobs_identified and successful_dispatches as they were.
C18_AppendLogFrame ==
    [][/\ Len(logs') = Len(logs) + 1
       /\ SubSeq(logs', 1, Len(logs)) = logs
       /\ IF logs'[Len(logs')].color = "orange"
          THEN api_fallbacks' = api_fallbacks + 1
          ELSE api_fallbacks' = api_fallbacks
       /\ jobs_identified' = jobs_identified
       /\ successful_dispatches' = successful_dispatches]_vars

C18_Witness ==
    /\ Len(logs) >= 3
    /\ api_fallbacks = 1
    /\ logs[2].color = "orange"
    /\ logs[Len(logs)].color = "#0288d1"

\* C19: a click on the start button with the sender address or the password
\* empty appends one error entry to the log and changes nothing else: the log
\* of before is kept, the flags, the counters and the stored file stay as they
\* were, and nothing is extracted, called, slept or sent. A run begins only
\* with both the address and the password given.
C19_RejectedStartOnlyLogs ==
    /\ [][(run_result' = "rejected" /\ clicks' = clicks + 1)
             => /\ Len(logs') = Len(logs) + 1
                /\ SubSeq(logs', 1, Len(logs)) = logs
                /\ logs'[Len(logs')].color = "red"
                /\ UNCHANGED <<jobs_identified, successful_dispatches, api_fallbacks,
                               pdf_bytes, pdf_filename, workflow_started,
                               workflow_completed, gemini_api_key>>
                /\ UNCHANGED <<pc, frame, status, effects, attachment, last_call,
                               gateway_calls>>]_vars
    /\ [][(pc = "idle" /\ pc' /= "idle")
             => (sender_email' /= <<>> /\ app_password' /= <<>>)]_vars

C19_Witness ==
    /\ run_result = "rejected"
    /\ Len(logs) > 1
    /\ logs[Len(logs)].color = "red"
    /\ workflow_completed
    /\ successful_dispatches > 0

Next ==
    \/ EnterApiKey
    \/ UploadFile
    \/ StartRejected
    \/ StartWorkflow
    \/ AbortExtraction
    \/ ParseResume
    \/ DiscoverJobs
    \/ GenerateLetter
    \/ DispatchTypeError
    \/ SimulatedSend
    \/ RealSend
    \/ InterviewPrep

Spec == Init /\ [][Next]_vars

LogNext == AppendLogCall

LogSpec == Init /\ [][LogNext]_vars
====
